---- MODULE Spec2Model ----
(***************************************************************************)
(* Model of the Aho-Corasick multi-pattern matcher of                      *)
(* src/Rust/aho_corasick/src/main.rs: the goto builder (build_goto,        *)
(* enter_pattern), the failure builder (build_failure), the matcher        *)
(* (aho_corasick) and the loop of run() that drives them.                  *)
(*                                                                         *)
(* A Vec is a TLA+ sequence; the code's 0-based index i is element i+1.    *)
(* A row of the goto table is a function over 0..ASIZE-1.  An index that   *)
(* is out of range is a Rust panic: the run stops in pc = "panic" with     *)
(* the tables as they were when the index was evaluated.                   *)
(***************************************************************************)
EXTENDS Integers, Sequences, FiniteSets, TLC

\* ---------------------------------------------------------------- constants
\* A goto row one column short.
ASIZE_OffByOne == 128 - 1

ASIZE == 128

FAIL == -1

\* ALPHA_OFFSETS with the code of C left out.
ALPHA_OFFSETS_NoC == <<65, 71, 84>>

ALPHA_OFFSETS == <<65, 67, 71, 84>>

\* ASIZE of boyer_moore/src/main.rs
BM_ASIZE == 128

\* ------------------------------------------------------------------- bounds
\* Largest total number of symbols of a pattern list, runs of one sequence.
MaxTotal == 3
\* Longest sequence, runs of one sequence.
MaxSeqLen == 3
\* Largest total number of symbols of a pattern list, runs over the byte
\* range and runs with an empty pattern.
MaxSmallTotal == 1
\* Longest sequence in the runs over the byte range.
MaxSmallSeqLen == 1
\* Largest number of sequences of a run.
MaxSeqs == 3
\* Largest total number of symbols of the sequences of a run of several.
MaxSeqTotal == 3
\* Largest number of sequences of a run with an answers table.
MaxAnsSeqs == 2
\* Longest sequence scanned against the pattern lists of the scenarios.
MaxScenSeqLen == 4
\* Longest pattern of the Boyer-Moore runs.
MaxBMPat == 3
\* Longest sequence of the Boyer-Moore runs.
MaxBMSeq == 4

VARIABLES patterns, sequences, answers, goto_fn, output_fn, new_state,
          failure_fn, queue, pat_i, seq_i, pos, state, matches, results,
          return_code, workers, pc, err, bm

\* The variables of the Aho-Corasick program.
ac_vars == <<patterns, sequences, answers, goto_fn, output_fn, new_state,
             failure_fn, queue, pat_i, seq_i, pos, state, matches, results,
             return_code, workers, pc, err>>

vars == <<patterns, sequences, answers, goto_fn, output_fn, new_state,
          failure_fn, queue, pat_i, seq_i, pos, state, matches, results,
          return_code, workers, pc, err, bm>>

\* ------------------------------------------------------------------ helpers
\* v[i] of a Vec, 0-based.
At(v, i) == v[i + 1]

\* v[i] = x of a Vec, 0-based.
Put(v, i, x) == [v EXCEPT ![i + 1] = x]

\* Set::contains
Contains(elements, element) == \E k \in 1..Len(elements) : elements[k] = element

\* Set::insert
Insert(elements, element) == Append(elements, element)

\* Set::union, having merged the first k elements of other
RECURSIVE UnionFrom(_, _, _)
UnionFrom(elements, other, k) ==
    IF k > Len(other) THEN elements
    ELSE UnionFrom(IF Contains(elements, other[k]) THEN elements
                   ELSE Insert(elements, other[k]),
                   other, k + 1)

\* A union that replaces the set by the other one.
UnionOverwrite(elements, other) == other

Union(elements, other) == UnionFrom(elements, other, 1)

\* Queue::new
NewQueue == [elements |-> <<>>, head |-> 0]

\* Queue::is_empty
IsEmpty(q) == q.head = Len(q.elements)

\* Queue::enqueue
Enqueue(q, element) == [q EXCEPT !.elements = Append(@, element)]

\* create_new_state
CreateNewState == [c \in 0..(ASIZE - 1) |-> FAIL]

\* goto_fn[s][c] with both indices in range
Goto(g, s, c) == At(g, s)[c]

\* Is c a column of row s of the table (a Vec index in range)?
InRow(g, s, c) == c \in DOMAIN At(g, s)

\* goto_fn[s][c] = t
SetGoto(g, s, c, t) == Put(g, s, [At(g, s) EXCEPT ![c] = t])

\* --------------------------------------------------------------- build_goto
\* The while loop of enter_pattern as published, without the break test.
RECURSIVE WalkNoBreak(_, _, _, _)
WalkNoBreak(g, pat, st, j) ==
    IF j >= Len(pat) THEN [state |-> st, j |-> j, err |-> "pat_index"]
    ELSE IF ~InRow(g, st, At(pat, j))
         THEN [state |-> st, j |-> j, err |-> "goto_index"]
    ELSE IF Goto(g, st, At(pat, j)) = FAIL
         THEN [state |-> st, j |-> j, err |-> "none"]
    ELSE WalkNoBreak(g, pat, Goto(g, st, At(pat, j)), j + 1)

\* A while loop that never follows a transition: it stops at the root.
WalkNoReuse(g, pat, st, j) ==
    IF j >= Len(pat) THEN [state |-> st, j |-> j, err |-> "pat_index"]
    ELSE IF ~InRow(g, st, At(pat, j))
         THEN [state |-> st, j |-> j, err |-> "goto_index"]
    ELSE [state |-> st, j |-> j, err |-> "none"]

\* enter_pattern, the while loop: follow the transitions that exist.  The
\* loop test reads pat[j] and then goto_fn[state][pat[j]].
RECURSIVE Walk(_, _, _, _)
Walk(g, pat, st, j) ==
    IF j >= Len(pat) THEN [state |-> st, j |-> j, err |-> "pat_index"]
    ELSE IF ~InRow(g, st, At(pat, j))
         THEN [state |-> st, j |-> j, err |-> "goto_index"]
    ELSE IF Goto(g, st, At(pat, j)) = FAIL
         THEN [state |-> st, j |-> j, err |-> "none"]
    ELSE IF j + 1 = Len(pat)
         THEN [state |-> Goto(g, st, At(pat, j)), j |-> j + 1, err |-> "none"]
    ELSE Walk(g, pat, Goto(g, st, At(pat, j)), j + 1)

\* A for loop that uses new_state before it increments it.
RECURSIVE GrowPostIncrement(_, _, _, _, _, _)
GrowPostIncrement(g, out, ns, st, pat, j) ==
    IF j >= Len(pat)
    THEN [goto |-> g, out |-> out, new_state |-> ns, state |-> st,
          err |-> "none"]
    ELSE IF ~InRow(g, st, At(pat, j))
         THEN [goto |-> g, out |-> out, new_state |-> ns + 1, state |-> st,
               err |-> "goto_index"]
    ELSE GrowPostIncrement(
             Append(SetGoto(g, st, At(pat, j), ns), CreateNewState),
             Append(out, <<>>), ns + 1, ns, pat, j + 1)

\* enter_pattern, the for loop: one new state per remaining symbol.
RECURSIVE Grow(_, _, _, _, _, _)
Grow(g, out, ns, st, pat, j) ==
    IF j >= Len(pat)
    THEN [goto |-> g, out |-> out, new_state |-> ns, state |-> st,
          err |-> "none"]
    ELSE IF ~InRow(g, st, At(pat, j))
         THEN [goto |-> g, out |-> out, new_state |-> ns + 1, state |-> st,
               err |-> "goto_index"]
    ELSE Grow(Append(SetGoto(g, st, At(pat, j), ns + 1), CreateNewState),
              Append(out, <<>>), ns + 1, ns + 1, pat, j + 1)

\* enter_pattern with the insert of the index executed twice.
EnterPatternFnInsertTwice(ns, pat, idx, g, out) ==
    LET w == Walk(g, pat, 0, 0) IN
    IF w.err # "none"
    THEN [goto |-> g, out |-> out, new_state |-> ns, state |-> w.state,
          err |-> w.err]
    ELSE LET r == Grow(g, out, ns, w.state, pat, w.j) IN
         IF r.err # "none" THEN r
         ELSE [r EXCEPT !.out = Put(r.out, r.state,
                                    Insert(Insert(At(r.out, r.state), idx),
                                           idx))]

\* enter_pattern
EnterPatternFn(ns, pat, idx, g, out) ==
    LET w == Walk(g, pat, 0, 0) IN
    IF w.err # "none"
    THEN [goto |-> g, out |-> out, new_state |-> ns, state |-> w.state,
          err |-> w.err]
    ELSE LET r == Grow(g, out, ns, w.state, pat, w.j) IN
         IF r.err # "none" THEN r
         ELSE [r EXCEPT !.out = Put(r.out, r.state,
                                    Insert(At(r.out, r.state), idx))]

\* A fill loop that writes the highest state id instead of 0.
FillRootFnHighest(g) ==
    Put(g, 0, [c \in DOMAIN At(g, 0) |->
                  IF Goto(g, 0, c) = FAIL THEN Len(g) - 1 ELSE Goto(g, 0, c)])

\* A fill loop that runs over the rows of all states.
FillRootFnAllRows(g) ==
    [k \in 1..Len(g) |-> [c \in DOMAIN g[k] |->
                             IF g[k][c] = FAIL THEN 0 ELSE g[k][c]]]

\* build_goto, the fill loop over state 0
FillRootFn(g) ==
    Put(g, 0, [c \in DOMAIN At(g, 0) |->
                  IF Goto(g, 0, c) = FAIL THEN 0 ELSE Goto(g, 0, c)])

\* ------------------------------------------------------------ build_failure
\* build_failure, the inner while loop: the nearest state on the failure
\* chain that has a transition on a.
RECURSIVE FailState(_, _, _, _)
FailState(g, f, st, a) ==
    IF Goto(g, st, a) = FAIL THEN FailState(g, f, At(f, st), a) ELSE st

\* build_failure, the first loop: the children of the root, for the symbols
\* of ALPHA_OFFSETS from index k on.
RECURSIVE RootLoop(_, _, _, _)
RootLoop(g, f, q, k) ==
    IF k > Len(ALPHA_OFFSETS) THEN [failure |-> f, queue |-> q]
    ELSE LET s == Goto(g, 0, ALPHA_OFFSETS[k]) IN
         IF s = 0 THEN RootLoop(g, f, q, k + 1)
         ELSE RootLoop(g, Put(f, s, 0), Enqueue(q, s), k + 1)

\* The for loop that sets the failure links and leaves the output sets alone.
RECURSIVE StateLoopNoUnion(_, _, _, _, _, _)
StateLoopNoUnion(g, f, out, q, r, k) ==
    IF k > Len(ALPHA_OFFSETS)
    THEN [failure |-> f, out |-> out, queue |-> q]
    ELSE LET a  == ALPHA_OFFSETS[k]
             s  == Goto(g, r, a)
             fs == Goto(g, FailState(g, f, At(f, r), a), a)
         IN  IF s = FAIL THEN StateLoopNoUnion(g, f, out, q, r, k + 1)
             ELSE StateLoopNoUnion(g, Put(f, s, fs), out,
                                   Enqueue(q, s), r, k + 1)

\* The for loop that starts the search of the failure state at r itself
\* instead of at failure[r].
RECURSIVE StateLoopFromR(_, _, _, _, _, _)
StateLoopFromR(g, f, out, q, r, k) ==
    IF k > Len(ALPHA_OFFSETS)
    THEN [failure |-> f, out |-> out, queue |-> q]
    ELSE LET a  == ALPHA_OFFSETS[k]
             s  == Goto(g, r, a)
             fs == Goto(g, FailState(g, f, r, a), a)
         IN  IF s = FAIL THEN StateLoopFromR(g, f, out, q, r, k + 1)
             ELSE StateLoopFromR(g, Put(f, s, fs),
                                 Put(out, s, Union(At(out, s), At(out, fs))),
                                 Enqueue(q, s), r, k + 1)

\* build_failure, the for loop of one dequeued state r, for the symbols of
\* ALPHA_OFFSETS from index k on.
RECURSIVE StateLoop(_, _, _, _, _, _)
StateLoop(g, f, out, q, r, k) ==
    IF k > Len(ALPHA_OFFSETS)
    THEN [failure |-> f, out |-> out, queue |-> q]
    ELSE LET a  == ALPHA_OFFSETS[k]
             s  == Goto(g, r, a)
             fs == Goto(g, FailState(g, f, At(f, r), a), a)
         IN  IF s = FAIL THEN StateLoop(g, f, out, q, r, k + 1)
             ELSE StateLoop(g, Put(f, s, fs),
                            Put(out, s, Union(At(out, s), At(out, fs))),
                            Enqueue(q, s), r, k + 1)

\* ------------------------------------------------------------- aho_corasick
\* aho_corasick, the inner while loop: follow failure links until a
\* transition on c exists.
RECURSIVE Follow(_, _, _, _)
Follow(g, f, st, c) ==
    IF Goto(g, st, c) = FAIL THEN Follow(g, f, At(f, st), c) ELSE st

\* aho_corasick, the loop over output_fn[state]: one increment per element,
\* from element k on.
RECURSIVE CountFrom(_, _, _)
CountFrom(m, elements, k) ==
    IF k > Len(elements) THEN m
    ELSE CountFrom(Put(m, elements[k], At(m, elements[k]) + 1),
                   elements, k + 1)

\* vec![0; n]
Zeros(n) == [i \in 1..n |-> 0]

\* Queue::dequeue; the caller has tested is_empty
Dequeue(q) == [value |-> At(q.elements, q.head),
               queue |-> [q EXCEPT !.head = @ + 1]]

\* ------------------------------------------------------------------- inputs
\* The sequences over the symbols S of length at most n.
SeqsOver(S, n) == UNION {[1..k -> S] : k \in 0..n}

\* The lists of patterns drawn from Pats whose lengths add up to at most t.
RECURSIVE ListsOf(_, _)
ListsOf(Pats, t) ==
    {<<>>} \cup UNION {{<<p>> \o l : l \in ListsOf(Pats, t - Len(p))} :
                       p \in {x \in Pats : Len(x) <= t /\ (Len(x) > 0 \/ t > 0)}}

\* The non-empty lists of non-empty patterns over S of total length <= t.
PatLists(S, t) == ListsOf(SeqsOver(S, t) \ {<<>>}, t) \ {<<>>}

\* The lists of at most n sequences over S whose lengths add up to at most t.
RECURSIVE SeqListsOf(_, _, _)
SeqListsOf(S, n, t) ==
    IF n = 0 THEN {<<>>}
    ELSE {<<>>} \cup UNION {{<<q>> \o l : l \in SeqListsOf(S, n - 1, t - Len(q))} :
                            q \in SeqsOver(S, t)}

\* answers_data of run(): None, or Some(the rows of the answers file).
NoAnswers == [some |-> FALSE, rows |-> <<>>]

SomeAnswers(rows) == [some |-> TRUE, rows |-> rows]

\* The runs of one sequence of length <= n against the pattern lists L.
RunsOfOne(L, S, n) ==
    {[p |-> l, s |-> <<q>>, a |-> NoAnswers] : l \in L, q \in SeqsOver(S, n)}

\* Symbols of the DNA runs: A and C, both in ALPHA_OFFSETS.
DNASymbols == {65, 67}

\* Symbols of the ASCII runs: A (in ALPHA_OFFSETS) and B (not in it).
Symbols == {65, 66}

\* Symbols of the byte-range runs: the last column of a goto row, the first
\* byte past it, and the largest byte.
ByteSymbols == {127, 128, 255}

\* The pattern lists of the scenarios: A, AB, BAB; CA, A; AA.
ScenarioPatterns ==
    { << <<65>>, <<65, 66>>, <<66, 65, 66>> >>,
      << <<67, 65>>, <<65>> >>,
      << <<65, 65>> >> }

\* Pattern lists with one empty pattern, anywhere in the list.
EmptyPatLists ==
    LET L == ListsOf(SeqsOver(Symbols, MaxSmallTotal) \ {<<>>}, MaxSmallTotal)
    IN  {a \o << <<>> >> \o b : a \in L, b \in L}

\* The runs of several sequences, without an answers table.
SeveralRuns ==
    {[p |-> l, s |-> q, a |-> NoAnswers] :
        l \in ScenarioPatterns,
        q \in SeqListsOf(Symbols, MaxSeqs, MaxSeqTotal)}

\* The pattern lists of the runs with an answers table: A; A, B.
AnswerPatterns == { << <<65>> >>, << <<65>>, <<66>> >> }

\* The sequence lists of the runs with an answers table.
AnswerSeqLists == UNION {[1..n -> SeqsOver(Symbols, 1)] : n \in 0..MaxAnsSeqs}

\* The answers tables of r rows and c columns; a pattern of one symbol
\* occurs 0 times or once in a sequence of at most one symbol.
Tables(r, c) == [1..r -> [1..c -> 0..1]]

\* The answers tables tried for r patterns and c sequences: one row per
\* pattern and one column per sequence, or one row too many, or one column
\* too few, or one column too many. read_answers parses at least one value
\* on every line.
TablesFor(r, c) ==
    {t \in Tables(r, c)
            \cup {[i \in 1..(r + 1) |-> [k \in 1..c |-> 0]]}
            \cup {[i \in 1..r |-> [k \in 1..(c - 1) |-> 0]]}
            \cup {[i \in 1..r |-> [k \in 1..(c + 1) |-> 1]]} :
        \A i \in DOMAIN t : Len(t[i]) >= 1}

\* The runs with an answers table.
AnswerRuns ==
    UNION {UNION {{[p |-> l, s |-> q, a |-> SomeAnswers(t)] :
                      t \in TablesFor(Len(l), Len(q))} :
                  q \in AnswerSeqLists} :
           l \in AnswerPatterns}

\* The inputs of run(): the patterns, sequences and answers files.
Inputs ==
    RunsOfOne(PatLists(DNASymbols, MaxTotal), DNASymbols, MaxSeqLen)
    \cup RunsOfOne(PatLists(Symbols, MaxTotal), Symbols, MaxSeqLen)
    \cup RunsOfOne(ScenarioPatterns, DNASymbols \cup Symbols, MaxScenSeqLen)
    \cup RunsOfOne(PatLists(ByteSymbols, MaxSmallTotal), ByteSymbols,
                   MaxSmallSeqLen)
    \cup RunsOfOne(EmptyPatLists, Symbols, 1)
    \cup SeveralRuns
    \cup AnswerRuns

\* The state of run() when the input files have been read.
InitOf(I) ==
    /\ \E in \in I :
          patterns = in.p /\ sequences = in.s /\ answers = in.a
    /\ goto_fn = <<>>
    /\ output_fn = <<>>
    /\ new_state = 0
    /\ failure_fn = <<>>
    /\ queue = NewQueue
    /\ pat_i = 0
    /\ seq_i = 0
    /\ pos = 0
    /\ state = 0
    /\ matches = <<>>
    /\ results = <<>>
    /\ return_code = 0
    /\ workers = <<>>
    /\ pc = "run"
    /\ err = "none"
    /\ bm = [pc |-> "idle"]

Init == InitOf(Inputs)

\* ------------------------------------------------------------------ actions
\* run(): an answers table must have one row per pattern
RunStart ==
    /\ pc = "run"
    /\ IF answers.some /\ Len(answers.rows) # Len(patterns)
       THEN pc' = "rejected" /\ return_code' = -1
       ELSE pc' = "build_goto" /\ return_code' = 0
    /\ UNCHANGED <<bm, patterns, sequences, answers, workers, goto_fn, output_fn,
                   new_state, failure_fn, queue, pat_i, seq_i, pos, state,
                   matches, results, err>>

\* build_goto: state 0 of goto_fn and output_fn
BuildGotoInit ==
    /\ pc = "build_goto"
    /\ goto_fn' = Append(goto_fn, CreateNewState)
    /\ output_fn' = Append(output_fn, <<>>)
    /\ new_state' = 0
    /\ pat_i' = 0
    /\ pc' = "enter"
    /\ UNCHANGED <<bm, patterns, sequences, answers, return_code, workers,
                   failure_fn, queue, seq_i, pos, state,
                   matches, results, err>>

\* build_goto: one call of enter_pattern
EnterPattern ==
    /\ pc = "enter"
    /\ pat_i < Len(patterns)
    /\ LET r == EnterPatternFn(new_state, At(patterns, pat_i), pat_i,
                               goto_fn, output_fn)
       IN  /\ goto_fn' = r.goto
           /\ output_fn' = r.out
           /\ new_state' = r.new_state
           /\ err' = r.err
           /\ pc' = IF r.err = "none" THEN "enter" ELSE "panic"
           /\ pat_i' = IF r.err = "none" THEN pat_i + 1 ELSE pat_i
    /\ UNCHANGED <<bm, patterns, sequences, answers, return_code, workers,
                   failure_fn, queue, seq_i, pos, state,
                   matches, results>>

\* build_goto: the unused transitions of state 0 point back to state 0
FillRoot ==
    /\ pc = "enter"
    /\ pat_i = Len(patterns)
    /\ goto_fn' = FillRootFn(goto_fn)
    /\ pc' = "build_failure"
    /\ UNCHANGED <<bm, patterns, sequences, answers, return_code, workers,
                   output_fn, new_state, failure_fn,
                   queue, pat_i, seq_i, pos, state, matches, results, err>>

\* build_failure: the queue, the failure vector and the first loop
BuildFailureInit ==
    /\ pc = "build_failure"
    /\ LET r == RootLoop(goto_fn, Zeros(Len(goto_fn)), NewQueue, 1)
       IN  /\ failure_fn' = r.failure
           /\ queue' = r.queue
    /\ pc' = "bf_loop"
    /\ UNCHANGED <<bm, patterns, sequences, answers, return_code, workers,
                   goto_fn, output_fn, new_state, pat_i,
                   seq_i, pos, state, matches, results, err>>

\* build_failure: one iteration of the while loop
BuildFailureStep ==
    /\ pc = "bf_loop"
    /\ ~IsEmpty(queue)
    /\ LET d == Dequeue(queue)
           r == StateLoop(goto_fn, failure_fn, output_fn, d.queue, d.value, 1)
       IN  /\ failure_fn' = r.failure
           /\ output_fn' = r.out
           /\ queue' = r.queue
    /\ UNCHANGED <<bm, patterns, sequences, answers, return_code, workers,
                   goto_fn, new_state, pat_i, seq_i, pos,
                   state, matches, results, pc, err>>

\* build_failure that returns while states are still queued.
BuildFailureDoneEarly ==
    /\ pc = "bf_loop"
    /\ pc' = "run_loop"
    /\ seq_i' = 0
    /\ UNCHANGED <<bm, patterns, sequences, answers, return_code, workers,
                   goto_fn, output_fn, new_state, failure_fn, queue, pat_i,
                   pos, state, matches, results, err>>

\* build_failure returns failure_fn; run() enters the loop over the sequences
BuildFailureDone ==
    /\ pc = "bf_loop"
    /\ IsEmpty(queue)
    /\ pc' = "run_loop"
    /\ seq_i' = 0
    /\ UNCHANGED <<bm, patterns, sequences, answers, return_code, workers,
                   goto_fn, output_fn, new_state,
                   failure_fn, queue, pat_i, pos, state, matches, results,
                   err>>

\* A matches vector kept from the previous call instead of a new one.
NewMatchesCarry(n) == IF Len(matches) = n THEN matches ELSE Zeros(n)

\* aho_corasick: the matches vector of one call
NewMatches(n) == Zeros(n)

\* A scan that empties the output set of the state it is in.
ScanFrameDrain ==
    /\ goto_fn' = goto_fn
    /\ failure_fn' = failure_fn
    /\ output_fn' = IF pc = "scan" /\ Len(At(output_fn, state)) > 0
                    THEN Put(output_fn, state, <<>>) ELSE output_fn

\* What a scan leaves alone: the tables are borrowed immutably.
ScanFrame == UNCHANGED <<goto_fn, failure_fn, output_fn>>

\* A scan that starts in the state the previous call ended in.
StartStateCarry == state

\* aho_corasick: the state a scan starts in
StartState == 0

\* The loop body that counts the output of the state it leaves.
ScanStepFnCountBefore(st, m, c) ==
    LET t == Goto(goto_fn, Follow(goto_fn, failure_fn, st, c), c)
    IN  [state |-> t, matches |-> CountFrom(m, At(output_fn, st), 1)]

\* aho_corasick, the body of the loop over the sequence for the symbol c, in
\* state st and with the counts m.
ScanStepFn(st, m, c) ==
    LET t == Goto(goto_fn, Follow(goto_fn, failure_fn, st, c), c)
    IN  [state |-> t, matches |-> CountFrom(m, At(output_fn, t), 1)]

\* run(), the comparison with the answers that stops at the first mismatch
\* of a sequence.
RECURSIVE CompareUntilMismatch(_, _, _, _, _)
CompareUntilMismatch(rc, m, rows, sequence, pattern) ==
    IF pattern >= Len(patterns) THEN [return_code |-> rc, err |-> "none"]
    ELSE IF sequence >= Len(At(rows, pattern))
         THEN [return_code |-> rc, err |-> "answers_index"]
    ELSE IF At(m, pattern) # At(At(rows, pattern), sequence)
         THEN [return_code |-> rc + 1, err |-> "none"]
    ELSE CompareUntilMismatch(rc, m, rows, sequence, pattern + 1)

\* run(), the comparison of the counts of one sequence with the answers,
\* from the given pattern on.
RECURSIVE CompareFrom(_, _, _, _, _)
CompareFrom(rc, m, rows, sequence, pattern) ==
    IF pattern >= Len(patterns) THEN [return_code |-> rc, err |-> "none"]
    ELSE IF sequence >= Len(At(rows, pattern))
         THEN [return_code |-> rc, err |-> "answers_index"]
    ELSE CompareFrom(IF At(m, pattern) # At(At(rows, pattern), sequence)
                     THEN rc + 1 ELSE rc,
                     m, rows, sequence, pattern + 1)

\* aho_corasick is called on the next sequence: matches and state
ScanStart ==
    /\ pc = "run_loop"
    /\ seq_i < Len(sequences)
    /\ matches' = NewMatches(Len(patterns))
    /\ state' = StartState
    /\ pos' = 0
    /\ pc' = "scan"
    /\ ScanFrame
    /\ UNCHANGED <<bm, patterns, sequences, answers, return_code, workers,
                   new_state, queue, pat_i, seq_i, results, err>>

\* aho_corasick: one iteration of the loop over the sequence
ScanSymbol ==
    /\ pc = "scan"
    /\ pos < Len(At(sequences, seq_i))
    /\ LET c == At(At(sequences, seq_i), pos) IN
       IF ~InRow(goto_fn, state, c)
       THEN /\ pc' = "panic"
            /\ err' = "goto_index"
            /\ UNCHANGED <<state, matches, pos>>
       ELSE LET r == ScanStepFn(state, matches, c)
            IN  /\ state' = r.state
                /\ matches' = r.matches
                /\ pos' = pos + 1
                /\ UNCHANGED <<pc, err>>
    /\ ScanFrame
    /\ UNCHANGED <<bm, patterns, sequences, answers, return_code, workers,
                   new_state, queue, pat_i, seq_i, results>>

\* aho_corasick returns matches to run(), which compares them with the
\* answers
ScanEnd ==
    /\ pc = "scan"
    /\ pos = Len(At(sequences, seq_i))
    /\ results' = Append(results, matches)
    /\ LET r == IF answers.some
                THEN CompareFrom(return_code, matches, answers.rows, seq_i, 0)
                ELSE [return_code |-> return_code, err |-> "none"]
       IN  /\ return_code' = r.return_code
           /\ err' = r.err
           /\ pc' = IF r.err = "none" THEN "run_loop" ELSE "panic"
           /\ seq_i' = IF r.err = "none" THEN seq_i + 1 ELSE seq_i
    /\ ScanFrame
    /\ UNCHANGED <<bm, patterns, sequences, answers, workers, new_state, queue,
                   pat_i, pos, state, matches>>

\* run(): the loop over the sequences is over
RunDone ==
    /\ pc = "run_loop"
    /\ seq_i = Len(sequences)
    /\ pc' = "done"
    /\ UNCHANGED <<bm, patterns, sequences, answers, return_code, workers,
                   goto_fn, output_fn, new_state,
                   failure_fn, queue, pat_i, seq_i, pos, state, matches,
                   results, err>>

Next ==
    \/ RunStart
    \/ BuildGotoInit
    \/ EnterPattern
    \/ FillRoot
    \/ BuildFailureInit
    \/ BuildFailureStep
    \/ BuildFailureDone
    \/ ScanStart
    \/ ScanSymbol
    \/ ScanEnd
    \/ RunDone

\* ---------------------------------------------------------- concurrent scans
\* One call of aho_corasick per sequence, all on the one automaton; worker w
\* scans sequence w and owns its position, state and matches vector.

\* A matches vector shared with the first worker.
WorkerMatchesShared(w) == workers[1].matches

\* aho_corasick: the matches vector of the call of worker w
WorkerMatches(w) == workers[w].matches

\* aho_corasick is called once per sequence
ConcStart ==
    /\ pc = "run_loop"
    /\ workers' = [w \in 1..Len(sequences) |->
                      [pos |-> 0, state |-> StartState,
                       matches |-> NewMatches(Len(patterns))]]
    /\ pc' = "conc"
    /\ ScanFrame
    /\ UNCHANGED <<bm, patterns, sequences, answers, return_code, new_state,
                   queue, pat_i, seq_i, pos, state, matches, results, err>>

\* aho_corasick: one iteration of the loop over the sequence, in worker w
ConcStep(w) ==
    /\ pc = "conc"
    /\ workers[w].pos < Len(sequences[w])
    /\ LET c == At(sequences[w], workers[w].pos) IN
       IF ~InRow(goto_fn, workers[w].state, c)
       THEN /\ pc' = "panic"
            /\ err' = "goto_index"
            /\ UNCHANGED workers
       ELSE LET r == ScanStepFn(workers[w].state, WorkerMatches(w), c)
            IN  /\ workers' = [workers EXCEPT
                                  ![w] = [pos |-> @.pos + 1,
                                          state |-> r.state,
                                          matches |-> r.matches]]
                /\ UNCHANGED <<pc, err>>
    /\ ScanFrame
    /\ UNCHANGED <<bm, patterns, sequences, answers, return_code, new_state,
                   queue, pat_i, seq_i, pos, state, matches, results>>

\* some worker takes a step
ConcStepAny == \E w \in 1..Len(workers) : ConcStep(w)

\* every call of aho_corasick has returned its matches
ConcJoin ==
    /\ pc = "conc"
    /\ \A w \in 1..Len(workers) : workers[w].pos = Len(sequences[w])
    /\ results' = [w \in 1..Len(workers) |-> workers[w].matches]
    /\ pc' = "done"
    /\ ScanFrame
    /\ UNCHANGED <<bm, patterns, sequences, answers, return_code, workers,
                   new_state, queue, pat_i, seq_i, pos, state, matches, err>>

NextConc ==
    \/ RunStart
    \/ BuildGotoInit
    \/ EnterPattern
    \/ FillRoot
    \/ BuildFailureInit
    \/ BuildFailureStep
    \/ BuildFailureDone
    \/ ConcStart
    \/ ConcStepAny
    \/ ConcJoin

\* ----------------------------------------------------------- specifications
Spec == Init /\ [][Next]_vars

\* The runs of several sequences, the scans running concurrently.
InitConc == InitOf(SeveralRuns)

SpecConc == InitConc /\ [][NextConc]_vars

\* ------------------------------------------------------------- boyer_moore
\* The single-pattern Boyer-Moore matcher of boyer_moore/src/main.rs.  A
\* usize that wrapped below 0 (a build without overflow checks) is kept as
\* the negative number it is congruent to modulo 2^64: it is past the end of
\* every Vec.  A build with overflow checks panics at the subtraction.

\* vec![x; n]
Filled(n, x) == [k \in 1..n |-> x]

\* calc_bad_char, the for loop from index i on
RECURSIVE BadCharFrom(_, _, _, _)
BadCharFrom(bad_char, pat, m, i) ==
    IF i >= m - 1 THEN [v |-> bad_char, err |-> "none"]
    ELSE IF At(pat, i) \notin DOMAIN bad_char
         THEN [v |-> bad_char, err |-> "index"]
    ELSE BadCharFrom([bad_char EXCEPT ![At(pat, i)] = m - i - 1],
                     pat, m, i + 1)

calc_bad_char(pat, m) ==
    BadCharFrom([c \in 0..(BM_ASIZE - 1) |-> m], pat, m, 0)

\* calc_suffixes, the inner while loop
RECURSIVE SuffixMatch(_, _, _, _)
SuffixMatch(pat, m, f, g) ==
    IF g >= 0 /\ At(pat, g) = At(pat, g + m - 1 - f)
    THEN SuffixMatch(pat, m, f, g - 1)
    ELSE g

\* calc_suffixes, the outer while loop from i down
RECURSIVE SuffixLoop(_, _, _, _, _, _)
SuffixLoop(pat, m, suffix_list, f, g, i) ==
    IF i < 0 THEN suffix_list
    ELSE IF i > g /\ At(suffix_list, i + m - 1 - f) < i - g
         THEN SuffixLoop(pat, m,
                         Put(suffix_list, i, At(suffix_list, i + m - 1 - f)),
                         f, g, i - 1)
    ELSE LET g2 == SuffixMatch(pat, m, i, IF i < g THEN i ELSE g)
         IN  SuffixLoop(pat, m, Put(suffix_list, i, i - g2), i, g2, i - 1)

calc_suffixes(pat, m) ==
    SuffixLoop(pat, m, Put(Filled(m, 0), m - 1, m), 0, m - 1, m - 2)

\* calc_good_suffix, the inner while loop over j
RECURSIVE GoodSuffixFill(_, _, _, _)
GoodSuffixFill(good_suffix, m, i, j) ==
    IF j < m - 1 - i
    THEN GoodSuffixFill(IF At(good_suffix, j) = m
                        THEN Put(good_suffix, j, m - 1 - i)
                        ELSE good_suffix,
                        m, i, j + 1)
    ELSE [v |-> good_suffix, j |-> j]

\* calc_good_suffix, the while loop from i down to -1
RECURSIVE GoodSuffixWhile(_, _, _, _, _)
GoodSuffixWhile(suffixes, good_suffix, m, i, j) ==
    IF i < -1 THEN good_suffix
    ELSE IF i = -1 \/ At(suffixes, i) = i + 1
         THEN LET r == GoodSuffixFill(good_suffix, m, i, j)
              IN  GoodSuffixWhile(suffixes, r.v, m, i - 1, r.j)
    ELSE GoodSuffixWhile(suffixes, good_suffix, m, i - 1, j)

\* calc_good_suffix, the for loop over 0..=(m - 2) from i on; m - 2 and
\* m - 1 - suffixes[i] are usize subtractions.
RECURSIVE GoodSuffixFor(_, _, _, _, _)
GoodSuffixFor(suffixes, good_suffix, m, i, build) ==
    IF m < 2 /\ build = "debug"
    THEN [v |-> good_suffix, err |-> "overflow"]
    ELSE IF m >= 2 /\ i > m - 2 THEN [v |-> good_suffix, err |-> "none"]
    ELSE IF i >= Len(suffixes) THEN [v |-> good_suffix, err |-> "index"]
    ELSE LET k == m - 1 - At(suffixes, i) IN
         IF k < 0 /\ build = "debug"
         THEN [v |-> good_suffix, err |-> "overflow"]
         ELSE IF k < 0 \/ k >= Len(good_suffix)
              THEN [v |-> good_suffix, err |-> "index"]
         ELSE GoodSuffixFor(suffixes, Put(good_suffix, k, m - 1 - i),
                            m, i + 1, build)

calc_good_suffix(pat, m, build) ==
    LET suffixes == calc_suffixes(pat, m)
    IN  GoodSuffixFor(suffixes,
                      GoodSuffixWhile(suffixes, Filled(m, m), m, m - 1, 0),
                      m, 0, build)

\* init_boyer_moore: the pattern with its sentinel and the two tables
init_boyer_moore(pat, build) ==
    LET m == Len(pat)
        new_pat == Append(pat, 0)
        gs == calc_good_suffix(new_pat, m, build)
        bc == calc_bad_char(new_pat, m)
    IN  [pattern |-> new_pat, good_suffix |-> gs.v, bad_char |-> bc.v,
         err |-> IF gs.err # "none" THEN gs.err ELSE bc.err]

\* boyer_moore, the inner while loop: compare from the right
RECURSIVE CompareBack(_, _, _, _)
CompareBack(pattern, sequence, i, j) ==
    IF i >= 0 /\ At(pattern, i) = At(sequence, i + j)
    THEN CompareBack(pattern, sequence, i - 1, j)
    ELSE i

\* max
Max(a, b) == IF a >= b THEN a ELSE b

\* The patterns and sequences of the Boyer-Moore runs, for both kinds of
\* build.
BMInputs ==
    {[pat |-> p, seq |-> q, build |-> b] :
        p \in SeqsOver(Symbols, MaxBMPat) \ {<<>>},
        q \in SeqsOver(Symbols, MaxBMSeq),
        b \in {"debug", "release"}}

\* run() of common/src/run.rs is about to call init for a pattern; the
\* Aho-Corasick program is not running.
InitBM ==
    /\ \E in \in BMInputs :
          bm = [pc |-> "init", pat |-> in.pat, seq |-> in.seq,
                build |-> in.build, pattern |-> <<>>, good_suffix |-> <<>>,
                bad_char |-> <<>>, j |-> 0, matches |-> 0, err |-> "none"]
    /\ patterns = <<>>
    /\ sequences = <<>>
    /\ answers = NoAnswers
    /\ goto_fn = <<>>
    /\ output_fn = <<>>
    /\ new_state = 0
    /\ failure_fn = <<>>
    /\ queue = NewQueue
    /\ pat_i = 0
    /\ seq_i = 0
    /\ pos = 0
    /\ state = 0
    /\ matches = <<>>
    /\ results = <<>>
    /\ return_code = 0
    /\ workers = <<>>
    /\ pc = "idle"
    /\ err = "none"

\* init_boyer_moore is called on the pattern
BMInit ==
    /\ bm.pc = "init"
    /\ LET r == init_boyer_moore(bm.pat, bm.build)
       IN  bm' = [bm EXCEPT !.pattern = r.pattern,
                            !.good_suffix = r.good_suffix,
                            !.bad_char = r.bad_char,
                            !.err = r.err,
                            !.pc = IF r.err = "none" THEN "search"
                                   ELSE "panic"]
    /\ UNCHANGED ac_vars

\* boyer_moore: one iteration of the while loop over j
BMStep ==
    /\ bm.pc = "search"
    /\ LET m == Len(bm.pattern) - 1
           n == Len(bm.seq)
       IN  /\ bm.j <= n - m
           /\ LET i == CompareBack(bm.pattern, bm.seq, m - 1, bm.j) IN
              IF i < 0
              THEN bm' = [bm EXCEPT !.matches = @ + 1,
                                   !.j = @ + At(bm.good_suffix, 0)]
              ELSE IF At(bm.seq, i + bm.j) \notin DOMAIN bm.bad_char
                   THEN bm' = [bm EXCEPT !.pc = "panic", !.err = "index"]
              ELSE bm' = [bm EXCEPT
                            !.j = @ + Max(At(bm.good_suffix, i),
                                          bm.bad_char[At(bm.seq, i + bm.j)]
                                              - m + 1 + i)]
    /\ UNCHANGED ac_vars

\* boyer_moore returns matches
BMDone ==
    /\ bm.pc = "search"
    /\ bm.j > Len(bm.seq) - (Len(bm.pattern) - 1)
    /\ bm' = [bm EXCEPT !.pc = "done"]
    /\ UNCHANGED ac_vars

NextBM ==
    \/ BMInit
    \/ BMStep
    \/ BMDone

SpecBM == InitBM /\ [][NextBM]_vars

\* ------------------------------------------------- reference for the claims
\* The number of end-positions of seq at which pat occurs as a substring.
Occ(pat, seq) ==
    Cardinality({e \in Len(pat)..Len(seq) :
                    SubSeq(seq, e - Len(pat) + 1, e) = pat})

\* Every count of every finished scan is the brute-force count.
ResultsAreBruteForce ==
    \A k \in 1..Len(results) : \A i \in 1..Len(patterns) :
        results[k][i] = Occ(patterns[i], sequences[k])

\* The symbols of the patterns and of the sequences.
PatternSymbols == UNION {{patterns[i][j] : j \in 1..Len(patterns[i])} :
                         i \in 1..Len(patterns)}

SequenceSymbols == UNION {{sequences[k][j] : j \in 1..Len(sequences[k])} :
                          k \in 1..Len(sequences)}

\* The codes of A, C, G and T.
DNA == {65, 67, 71, 84}

OnlyDNA == PatternSymbols \cup SequenceSymbols \subseteq DNA

\* p is a prefix of q; p is a proper suffix of q.
IsPrefix(p, q) == Len(p) <= Len(q) /\ SubSeq(q, 1, Len(p)) = p

IsProperSuffix(p, q) ==
    Len(p) < Len(q) /\ SubSeq(q, Len(q) - Len(p) + 1, Len(q)) = p

\* The state reached from the root along pat in the table g.
RECURSIVE PathState(_, _, _, _)
PathState(g, pat, st, j) ==
    IF j >= Len(pat) THEN st
    ELSE PathState(g, pat, Goto(g, st, At(pat, j)), j + 1)

\* ------------------------------------------------------------------- claims
\* C1: for every non-empty list of non-empty patterns and every sequence
\* over the supported symbols, each count returned by aho_corasick is the
\* number of end-positions at which the pattern occurs in the sequence.
C1_ScanIsBruteForce == pc = "done" => ResultsAreBruteForce

\* C2: patterns A, AB, BAB scanned against ABAB give the counts 2, 2 and 1.
C2_Scenario1 ==
    (/\ pc = "done"
     /\ patterns = << <<65>>, <<65, 66>>, <<66, 65, 66>> >>
     /\ sequences = << <<65, 66, 65, 66>> >>)
    => results = << <<2, 2, 1>> >>

\* C3: when the patterns and the sequences hold only A, C, G and T, each
\* count returned by aho_corasick is the brute-force number of occurrences,
\* overlapping ones included.
C3_DNAScanIsBruteForce == (pc = "done" /\ OnlyDNA) => ResultsAreBruteForce

\* C3 witness: a finished DNA run whose automaton has a failure link that
\* does not point to the root and that counted some pattern twice.
C3_Witness ==
    /\ pc = "done"
    /\ OnlyDNA
    /\ \E s \in 1..Len(failure_fn) : failure_fn[s] # 0
    /\ \E k \in 1..Len(results) : \E i \in 1..Len(patterns) :
          results[k][i] >= 2 /\ Len(patterns[i]) >= 2

\* C4: entering a non-empty pattern that is identical to, or a prefix of, a
\* pattern entered before it ends without a failure, reads no symbol past
\* the pattern's end, allocates no state, changes no transition and appends
\* the pattern's index to the output set of the state its path ends in; the
\* indices of duplicates share that set and get equal counts.
C4_PrefixInsertion ==
    /\ [][(/\ pc = "enter"
           /\ pat_i < Len(patterns)
           /\ Len(At(patterns, pat_i)) > 0
           /\ \E k \in 0..(pat_i - 1) :
                 IsPrefix(At(patterns, pat_i), At(patterns, k)))
          => LET pat == At(patterns, pat_i)
                 t   == PathState(goto_fn, pat, 0, 0)
             IN  /\ err' = "none"
                 /\ pc' = "enter"
                 /\ new_state' = new_state
                 /\ goto_fn' = goto_fn
                 /\ output_fn' = Put(output_fn, t,
                                     Append(At(output_fn, t), pat_i))
                 /\ \A k \in 0..(pat_i - 1) :
                       At(patterns, k) = pat
                       => Contains(At(output_fn', t), k)]_vars
    /\ [](pc = "done"
          => \A k \in 1..Len(results) : \A i, j \in 1..Len(patterns) :
                patterns[i] = patterns[j] => results[k][i] = results[k][j])

\* C4 witness: the second of two equal patterns has just been entered and
\* both indices are in the output set of the one state the pattern ends in.
C4_Witness ==
    /\ pc = "enter"
    /\ pat_i = 2
    /\ patterns[1] = patterns[2]
    /\ Len(goto_fn) = 1 + Len(patterns[1])
    /\ At(output_fn, Len(patterns[1])) = <<0, 1>>

\* C5: a pattern list with a zero-length pattern never gets past
\* construction, and when construction fails neither the goto table nor the
\* output function holds a state.
C5_EmptyRejectedFirst ==
    (\E i \in 1..Len(patterns) : patterns[i] = <<>>)
    => /\ pc \in {"run", "build_goto", "enter", "panic"}
       /\ pc = "panic" => (goto_fn = <<>> /\ output_fn = <<>>)

\* The byte the scan consumed last.
LastByte == At(At(sequences, seq_i), pos - 1)

\* A scan that has consumed a byte no pattern contains is in the root.
UnenteredByteToRoot ==
    (pc = "scan" /\ pos > 0 /\ LastByte \notin PatternSymbols) => state = 0

C7_NestedCounted ==
    /\ [][(pc = "scan" /\ pc' = "scan" /\ pos' = pos + 1)
          => \A i, j \in 1..Len(patterns) :
                (/\ IsProperSuffix(patterns[j], patterns[i])
                 /\ matches'[i] = matches[i] + 1)
                => matches'[j] = matches[j] + 1]_vars
    /\ []((/\ pc = "done"
           /\ patterns = << <<67, 65>>, <<65>> >>
           /\ sequences = << <<65, 67, 65>> >>)
          => results = << <<1, 2>> >>)

\* All the symbols of p are the same.
Uniform(p) == \A a, b \in 1..Len(p) : p[a] = p[b]

\* C8: a pattern of m copies of one symbol scanned against n >= m copies of
\* that symbol is counted n - m + 1 times.
C8_OverlapCounted ==
    pc = "done"
    => \A k \in 1..Len(results) : \A i \in 1..Len(patterns) :
          (/\ Len(patterns[i]) >= 1
           /\ Len(sequences[k]) >= Len(patterns[i])
           /\ Uniform(patterns[i] \o sequences[k]))
          => results[k][i] = Len(sequences[k]) - Len(patterns[i]) + 1

\* C9: the matches vector of a scan has one entry per pattern, is all 0
\* when the scan starts, never decreases during the scan, and the result
\* for an empty sequence is all 0.
C9_FreshCounts ==
    /\ [](/\ pc = "scan" => Len(matches) = Len(patterns)
          /\ (pc = "scan" /\ pos = 0)
             => \A i \in 1..Len(matches) : matches[i] = 0
          /\ \A k \in 1..Len(results) :
                /\ Len(results[k]) = Len(patterns)
                /\ sequences[k] = <<>>
                   => \A i \in 1..Len(results[k]) : results[k][i] = 0)
    /\ [][(pc = "scan" /\ pc' = "scan")
          => \A i \in 1..Len(matches) : matches'[i] >= matches[i]]_vars

\* C9 witness: the second scan of a run starts with an all-0 vector after
\* the first scan returned a count that is not 0.
C9_Witness ==
    /\ pc = "scan"
    /\ seq_i = 1
    /\ pos = 0
    /\ \E i \in 1..Len(patterns) : results[1][i] > 0
    /\ \A i \in 1..Len(patterns) : matches[i] = 0

\* C10: no step of a scan, from the call of aho_corasick to its return,
\* changes the goto table, the failure table or an output set, nor the
\* inputs or the builder's data.
C10_ScanLeavesAutomaton ==
    [][(pc \in {"run_loop", "scan"})
       => UNCHANGED <<goto_fn, failure_fn, output_fn, patterns, sequences,
                      new_state, queue>>]_vars

\* C10 witness: a scan that followed transitions out of the root and
\* counted a match has returned.
C10_Witness ==
    /\ pc = "run_loop"
    /\ seq_i >= 1
    /\ state # 0
    /\ \E i \in 1..Len(patterns) : results[seq_i][i] > 0

\* C11: two calls of aho_corasick on the same sequence return the same
\* counts, whatever was scanned between them.
C11_ScanIdempotent ==
    \A k, n \in 1..Len(results) :
        sequences[k] = sequences[n] => results[k] = results[n]

\* C11 witness: the first and the third scan of a run were of the same
\* sequence, the second of another one, and the first and the third
\* returned the same counts, not all 0 and not those of the second.
C11_Witness ==
    /\ pc = "done"
    /\ Len(results) = 3
    /\ sequences[1] = sequences[3]
    /\ sequences[1] # sequences[2]
    /\ results[1] = results[3]
    /\ results[1] # results[2]
    /\ \E i \in 1..Len(patterns) : results[1][i] > 0

\* The state and the counts of a scan of the first n symbols of seq that
\* runs alone on the automaton.
RECURSIVE ScanPrefix(_, _)
ScanPrefix(seq, n) ==
    IF n = 0 THEN [state |-> 0, matches |-> Zeros(Len(patterns))]
    ELSE LET p == ScanPrefix(seq, n - 1)
         IN  ScanStepFn(p.state, p.matches, seq[n])

\* C13: in every interleaving of the steps of concurrent scans of one
\* automaton, each scan is, after each of its steps, in the state and has
\* the counts of the same scan run alone, and returns those counts.
C13_ConcurrentScansIndependent ==
    /\ pc = "conc"
       => \A w \in 1..Len(workers) :
             LET p == ScanPrefix(sequences[w], workers[w].pos)
             IN  workers[w].state = p.state /\ workers[w].matches = p.matches
    /\ pc = "done"
       => \A w \in 1..Len(results) :
             results[w] = ScanPrefix(sequences[w], Len(sequences[w])).matches

\* C13 witness: two concurrent scans of different sequences are both under
\* way, the first one unfinished, and each has counted a match.
C13_Witness ==
    /\ pc = "conc"
    /\ Len(workers) >= 2
    /\ sequences[1] # sequences[2]
    /\ workers[1].pos >= 1
    /\ workers[1].pos < Len(sequences[1])
    /\ workers[2].pos >= 1
    /\ \A w \in 1..2 : \E i \in 1..Len(patterns) : workers[w].matches[i] > 0

\* C14: when build_failure starts every pattern has been entered and the
\* root is total; when the first scan starts build_failure has emptied its
\* queue; the k-th call of aho_corasick is the scan of the k-th sequence, on
\* the one automaton, and there is one call per sequence; once the first
\* scan has started no table is written.
C14_PhaseOrder ==
    /\ [](/\ pc \in {"build_failure", "bf_loop", "run_loop", "scan", "done"}
             => /\ pat_i = Len(patterns)
                /\ \A c \in DOMAIN At(goto_fn, 0) : Goto(goto_fn, 0, c) # FAIL
                /\ \A i \in 1..Len(patterns) :
                      Contains(At(output_fn,
                                  PathState(goto_fn, patterns[i], 0, 0)),
                               i - 1)
          /\ pc \in {"run_loop", "scan", "done"}
             => /\ IsEmpty(queue)
                /\ Len(failure_fn) = Len(goto_fn)
                /\ Len(results) = seq_i
                /\ \A k \in 1..Len(results) :
                      results[k] = ScanPrefix(sequences[k],
                                              Len(sequences[k])).matches
          /\ pc = "scan" => seq_i < Len(sequences)
          /\ pc = "done" => Len(results) = Len(sequences))
    /\ [][/\ (pc = "run_loop" /\ pc' = "scan") => seq_i' = seq_i
          /\ (pc = "scan" /\ pc' = "run_loop")
             => (seq_i' = seq_i + 1 /\ results' = Append(results, matches))
          /\ (pc = "scan" \/ Len(results) > 0)
             => UNCHANGED <<goto_fn, failure_fn, output_fn>>]_vars

\* C14 witness: a run of three sequences has ended; build_failure had
\* dequeued two states or more and the three scans returned counts that
\* are not all the same.
C14_Witness ==
    /\ pc = "done"
    /\ Len(sequences) = 3
    /\ Len(results) = 3
    /\ queue.head >= 2
    /\ results[1] # results[2]
    /\ results[2] # results[3]

\* C15: while the sequence being scanned is the pattern i itself, the count
\* of i is 0 after every shorter prefix and 1 once the last symbol has been
\* consumed, and 1 is what the scan returns.
C15_WholePatternOnceAtEnd ==
    /\ pc = "scan"
       => \A i \in 1..Len(patterns) :
             At(sequences, seq_i) = patterns[i]
             => matches[i] = (IF pos = Len(patterns[i]) THEN 1 ELSE 0)
    /\ \A k \in 1..Len(results) : \A i \in 1..Len(patterns) :
          sequences[k] = patterns[i] => results[k][i] = 1

\* C15 witness: the last symbol of a sequence of two symbols or more, which
\* is the second of two patterns or more, has just been consumed and the
\* pattern is counted once.
C15_Witness ==
    /\ pc = "scan"
    /\ Len(patterns) >= 2
    /\ At(sequences, seq_i) = patterns[2]
    /\ pos = Len(patterns[2])
    /\ pos >= 2
    /\ matches[2] = 1

\* The (pattern, sequence) pairs, among the first n sequences, whose count
\* differs from the answers table.
Mismatches(n) ==
    {pr \in (1..Len(patterns)) \X (1..n) :
        results[pr[2]][pr[1]] # answers.rows[pr[1]][pr[2]]}

\* C16 as stated: with an answers table of one row per pattern, every pair is
\* compared (the comparison never fails) and run returns the number of
\* pairs that differ; without a table it returns 0.
C16_MismatchesCounted ==
    /\ (answers.some /\ Len(answers.rows) = Len(patterns))
       => /\ err # "answers_index"
          /\ pc = "done" => return_code = Cardinality(Mismatches(Len(results)))
    /\ (~answers.some /\ pc = "done") => return_code = 0

\* The answers table has a row per pattern and, in each row, a column for
\* every sequence.
AnswersCoverInput ==
    /\ answers.some
    /\ Len(answers.rows) = Len(patterns)
    /\ \A i \in 1..Len(answers.rows) :
          Len(answers.rows[i]) >= Len(sequences)

\* C16 amended: with an answers table of one row per pattern and a column
\* for every sequence, every pair is compared; after each sequence
\* return_code is the number of pairs compared so far that differ, and that
\* is what run returns; without a table it returns 0.
C16_MismatchesCountedWithColumns ==
    /\ AnswersCoverInput
       => /\ err # "answers_index"
          /\ pc \in {"run_loop", "done"}
             => return_code = Cardinality(Mismatches(Len(results)))
          /\ pc = "done" => Len(results) = Len(sequences)
    /\ (~answers.some /\ pc = "done") => return_code = 0

\* C16 witness: run has returned 3 for two patterns and two sequences: both
\* counts of one sequence differ from the table, one count of the other
\* sequence agrees with it.
C16_Witness ==
    /\ pc = "done"
    /\ AnswersCoverInput
    /\ Len(patterns) = 2
    /\ Len(sequences) = 2
    /\ return_code = 3
    /\ results[1][1] # answers.rows[1][1]
    /\ results[1][2] # answers.rows[2][1]

\* The automaton is built: build_failure has returned.
Built == pc \in {"run_loop", "scan", "done"}

\* The paths of the trie: the prefixes of the patterns.
Paths ==
    UNION {{SubSeq(patterns[i], 1, n) : n \in 0..Len(patterns[i])} :
              i \in 1..Len(patterns)}

\* The state of the path w.
StateOf(w) == PathState(goto_fn, w, 0, 0)

\* The longest proper suffix of the non-empty path w that is a path.
LongestSuffixPath(w) ==
    CHOOSE v \in Paths :
        /\ IsProperSuffix(v, w)
        /\ \A u \in Paths : IsProperSuffix(u, w) => Len(u) <= Len(v)

\* C17: after build_failure the failure entry of the state of every
\* non-empty path of the trie is the state of the longest proper suffix of
\* that path that is a path too (the root for the empty suffix), whatever
\* the symbols of the path.
C17_FailureIsLongestSuffix ==
    Built => \A w \in Paths \ {<<>>} :
                At(failure_fn, StateOf(w)) = StateOf(LongestSuffixPath(w))

\* C18: when build_failure has returned, every non-root state has been
\* enqueued exactly once and every enqueued state has been dequeued.
C18_BreadthFirstCoverage ==
    Built => /\ \A s \in 1..(Len(goto_fn) - 1) :
                   Cardinality({k \in 1..Len(queue.elements) :
                                   queue.elements[k] = s}) = 1
             /\ queue.head = Len(queue.elements)

\* The states on the failure chain of s, s included; n bounds the walk.
RECURSIVE ChainOf(_, _)
ChainOf(s, n) ==
    IF s = 0 \/ n = 0 THEN {s}
    ELSE {s} \cup ChainOf(At(failure_fn, s), n - 1)

\* C19: after construction the output set of every state s holds, once
\* each, exactly the indices of the patterns whose path ends at s or at a
\* state on the chain of failure links of s.
C19_OutputIsChainUnion ==
    Built => \A s \in 0..(Len(goto_fn) - 1) :
                LET out == At(output_fn, s) IN
                /\ {out[k] : k \in 1..Len(out)}
                   = {i - 1 : i \in {j \in 1..Len(patterns) :
                                 StateOf(patterns[j])
                                     \in ChainOf(s, Len(goto_fn))}}
                /\ \A k, n \in 1..Len(out) : out[k] = out[n] => k = n

\* C19 witness: a state whose output set holds two indices, one of a pattern
\* that ends there and one of a pattern that ends at its failure state,
\* which is not the root.
C19_Witness ==
    /\ Built
    /\ \E s \in 1..(Len(goto_fn) - 1) :
          /\ At(failure_fn, s) # 0
          /\ Len(At(output_fn, s)) = 2
          /\ \E i, j \in 1..Len(patterns) :
                /\ StateOf(patterns[i]) = s
                /\ StateOf(patterns[j]) = At(failure_fn, s)

\* The trie depth of the state s: the length of its path.
Depth(s) == Len(CHOOSE w \in Paths : StateOf(w) = s)

\* The number of failure links from s to the root, at most n + 1.
RECURSIVE StepsToRoot(_, _)
StepsToRoot(s, n) ==
    IF s = 0 THEN 0
    ELSE IF n = 0 THEN 1
    ELSE 1 + StepsToRoot(At(failure_fn, s), n - 1)

\* C20: from the moment build_failure has created the failure vector,
\* failure[0] is 0, the failure state of every non-root state is strictly
\* less deep than the state, and the root is at most depth(s) failure links
\* away from s.
C20_FailureDepthDecreases ==
    (pc = "bf_loop" \/ Built)
    => /\ At(failure_fn, 0) = 0
       /\ \A s \in 1..(Len(goto_fn) - 1) :
             /\ Depth(At(failure_fn, s)) < Depth(s)
             /\ StepsToRoot(s, Len(goto_fn)) <= Depth(s)

\* C20 witness: build_failure has returned a table in which a state of
\* depth 3 has a failure state of depth 2, two links away from the root.
C20_Witness ==
    /\ Built
    /\ \E s \in 1..(Len(goto_fn) - 1) :
          /\ Depth(s) = 3
          /\ Depth(At(failure_fn, s)) = 2
          /\ StepsToRoot(s, Len(goto_fn)) = 3

\* The elements of an output set.
ElemSet(elements) == {elements[k] : k \in 1..Len(elements)}

\* C21: no step of build_failure removes an index from an output set or
\* changes the number of output sets, and once build_failure has returned
\* the output set of every state holds every index of the output set of
\* every state on its chain of failure links.
C21_OutputsGrowAndDominate ==
    /\ [](Built => \A s \in 0..(Len(goto_fn) - 1) :
                      \A t \in ChainOf(s, Len(goto_fn)) :
                         ElemSet(At(output_fn, t))
                             \subseteq ElemSet(At(output_fn, s)))
    /\ [][(pc \in {"build_failure", "bf_loop"})
          => /\ Len(output_fn') = Len(output_fn)
             /\ \A s \in 0..(Len(output_fn) - 1) :
                   ElemSet(At(output_fn, s))
                       \subseteq ElemSet(At(output_fn', s))]_vars

\* C21 witness: build_failure has returned and a state that build_goto left
\* with one index holds two: its own and the one of its failure state, which
\* is not the root and holds one index only.
C21_Witness ==
    /\ Built
    /\ \E s \in 1..(Len(goto_fn) - 1) :
          /\ Cardinality({i \in 1..Len(patterns) :
                             StateOf(patterns[i]) = s}) = 1
          /\ Len(At(output_fn, s)) = 2
          /\ At(failure_fn, s) # 0
          /\ Len(At(output_fn, At(failure_fn, s))) = 1

\* build_goto has just returned, or the run has ended with the tables that
\* every scan used.
GotoBuilt == pc \in {"build_failure", "done"}

\* The symbols that start a pattern.
FirstSymbols == {patterns[i][1] : i \in {j \in 1..Len(patterns) :
                                            Len(patterns[j]) >= 1}}

\* C22: after build_goto every entry of the root's row is a state, and it is
\* 0 exactly for the symbols that start no pattern; every valid entry of a
\* non-root row is an edge of the trie, the other entries are still 'no
\* transition'; the fill step changes no row of a non-root state and no
\* root entry that a pattern created.
C22_RootTotal ==
    /\ [](GotoBuilt
          => /\ \A a \in 0..(ASIZE - 1) :
                   /\ Goto(goto_fn, 0, a) \in 0..(Len(goto_fn) - 1)
                   /\ Goto(goto_fn, 0, a) = 0 <=> a \notin FirstSymbols
             /\ \A s \in 1..(Len(goto_fn) - 1) : \A a \in 0..(ASIZE - 1) :
                   \/ Goto(goto_fn, s, a) = FAIL
                   \/ \E w \in Paths \ {<<>>} :
                         /\ w[Len(w)] = a
                         /\ StateOf(SubSeq(w, 1, Len(w) - 1)) = s
                         /\ StateOf(w) = Goto(goto_fn, s, a))
    /\ [][(pc = "enter" /\ pc' = "build_failure")
          => /\ Len(goto_fn') = Len(goto_fn)
             /\ \A s \in 1..(Len(goto_fn) - 1) :
                   At(goto_fn', s) = At(goto_fn, s)
             /\ \A a \in 0..(ASIZE - 1) :
                   Goto(goto_fn, 0, a) # FAIL
                   => Goto(goto_fn', 0, a) = Goto(goto_fn, 0, a)]_vars

\* C22 witness: build_goto has just returned for patterns that start with
\* two different symbols; the root has its two transitions to non-root
\* states and a transition to itself, and a non-root state has a transition
\* and a missing one.
C22_Witness ==
    /\ pc = "build_failure"
    /\ Cardinality(FirstSymbols) = 2
    /\ \A a \in FirstSymbols : Goto(goto_fn, 0, a) >= 1
    /\ \E a \in 0..(ASIZE - 1) : Goto(goto_fn, 0, a) = 0
    /\ \E s \in 1..(Len(goto_fn) - 1) : \E a, b \in 0..(ASIZE - 1) :
          Goto(goto_fn, s, a) >= 1 /\ Goto(goto_fn, s, b) = FAIL

\* A goto row whose entries are all 0.
ZeroRow == [c \in 0..(ASIZE - 1) |-> 0]

\* The row with the transitions of the paths in S written into it.
RECURSIVE WithEdges(_, _)
WithEdges(row, S) ==
    IF S = {} THEN row
    ELSE LET w == CHOOSE x \in S : TRUE
         IN  WithEdges([row EXCEPT ![w[Len(w)]] = StateOf(w)], S \ {w})

\* The path w without its last symbol.
Parent(w) == SubSeq(w, 1, Len(w) - 1)

\* C23: after build_goto the transitions of the table, the root's entries to
\* itself left out, are exactly the edges of a tree: one edge per non-empty
\* prefix of a pattern, from the state of the prefix without its last
\* symbol to a state created after it, different prefixes leading to
\* different states, and no other entry is a transition; so every non-root
\* state is the target of exactly one entry.  There is one state per
\* distinct non-empty prefix, plus the root, and goto_fn and output_fn have
\* new_state + 1 elements, so every target is the index of a row.
C23_TrieShape ==
    GotoBuilt
    => LET P == Paths \ {<<>>} IN
       /\ \A w \in P :
             /\ StateOf(w) \in 1..(Len(goto_fn) - 1)
             /\ StateOf(Parent(w)) < StateOf(w)
       /\ \A v, w \in P : StateOf(v) = StateOf(w) => v = w
       /\ \A s \in 0..(Len(goto_fn) - 1) :
             At(goto_fn, s)
             = WithEdges(IF s = 0 THEN ZeroRow ELSE CreateNewState,
                         {w \in P : StateOf(Parent(w)) = s})
       /\ Len(goto_fn) = 1 + Cardinality(P)
       /\ Len(output_fn) = Len(goto_fn)
       /\ Len(goto_fn) = new_state + 1

\* C23 witness: build_goto has returned a trie of six states for three
\* patterns of six symbols in all, the first a proper prefix of the second,
\* and the root has two children.
C23_Witness ==
    /\ GotoBuilt
    /\ Len(patterns) = 3
    /\ Len(patterns[1]) + Len(patterns[2]) + Len(patterns[3]) = 6
    /\ Len(goto_fn) = 6
    /\ patterns[1] # patterns[2]
    /\ IsPrefix(patterns[1], patterns[2])
    /\ Cardinality({a \in 0..(ASIZE - 1) : Goto(goto_fn, 0, a) >= 1}) = 2

\* C24: a call of enter_pattern keeps every row and every output set there
\* was: a valid transition is unchanged, an entry it writes was 'no
\* transition' and becomes the id of a state the call created, an output
\* set only gets elements appended; the states it creates have the ids that
\* follow the highest one, in the order of creation, one more row in each
\* table per state.
C24_EnterPatternOnlyGrows ==
    [][(pc = "enter" /\ pat_i < Len(patterns))
       => LET old == Len(goto_fn)
              new == Len(goto_fn')
          IN  /\ new >= old
              /\ Len(output_fn') = new
              /\ new_state' >= new_state
              /\ err' = "none" => new = new_state' + 1
              /\ \A s \in 0..(old - 1) : \A a \in 0..(ASIZE - 1) :
                    \/ Goto(goto_fn', s, a) = Goto(goto_fn, s, a)
                    \/ /\ Goto(goto_fn, s, a) = FAIL
                       /\ Goto(goto_fn', s, a) \in old..(new - 1)
              /\ \A s \in old..(new - 1) : \A a \in 0..(ASIZE - 1) :
                    Goto(goto_fn', s, a) \in {FAIL, s + 1}
              /\ \A t \in old..(new - 1) :
                    \E s \in 0..(new - 1) : \E a \in 0..(ASIZE - 1) :
                       Goto(goto_fn', s, a) = t
              /\ \A s \in 0..(old - 1) :
                    IsPrefix(At(output_fn, s), At(output_fn', s))]_vars

\* C24 witness: the second pattern has just been entered into a trie that
\* already had states; it followed the first transition of the first
\* pattern and added a state of its own.
C24_Witness ==
    /\ pc = "enter"
    /\ pat_i = 2
    /\ Len(patterns[1]) >= 1
    /\ Len(patterns[2]) >= 2
    /\ patterns[1][1] = patterns[2][1]
    /\ Len(goto_fn) > 1 + Len(patterns[1])
    /\ At(output_fn, Len(goto_fn) - 1) = <<1>>

\* The number of failure links the inner while loop of aho_corasick follows
\* from the state st for the symbol c; a walk of more than n links counts
\* n + 1.
RECURSIVE Hops(_, _, _)
Hops(st, c, n) ==
    IF Goto(goto_fn, st, c) # FAIL THEN 0
    ELSE IF n = 0 THEN 1
    ELSE 1 + Hops(At(failure_fn, st), c, n - 1)

\* The row with the entries of the symbols in S set to 'no transition'.
RECURSIVE Cleared(_, _)
Cleared(row, S) ==
    IF S = {} THEN row
    ELSE LET a == CHOOSE x \in S : TRUE
         IN  Cleared([row EXCEPT ![a] = FAIL], S \ {a})

\* The failure links followed while the first n symbols of seq are
\* consumed, and the state reached.
RECURSIVE ScanHops(_, _)
ScanHops(seq, n) ==
    IF n = 0 THEN [state |-> 0, hops |-> 0]
    ELSE LET p == ScanHops(seq, n - 1)
         IN  [state |-> ScanStepFn(p.state, Zeros(Len(patterns)),
                                   seq[n]).state,
              hops |-> p.hops + Hops(p.state, seq[n], Len(goto_fn))]

\* C25: in the automaton that build_failure has just returned the inner
\* loop ends within depth(s) failure links, for every state s and every
\* symbol of the table: for a symbol of the patterns by following the
\* loop; for any other symbol because the root has a transition to itself,
\* no other state has one and the root is at most depth(s) links away.  At
\* every point of a scan the failure links followed so far plus the depth
\* of the current state are at most the symbols consumed so far.
C25_ScanProgressBound ==
    /\ (pc = "run_loop" /\ seq_i = 0)
       => \A s \in 0..(Len(goto_fn) - 1) :
             /\ \A c \in PatternSymbols :
                   Hops(s, c, Len(goto_fn)) <= Depth(s)
             /\ Cleared(At(goto_fn, s), PatternSymbols)
                = (IF s = 0 THEN Cleared(ZeroRow, PatternSymbols)
                   ELSE CreateNewState)
             /\ StepsToRoot(s, Len(goto_fn)) <= Depth(s)
    /\ pc = "scan"
       => LET h == ScanHops(At(sequences, seq_i), pos) IN
          /\ state = h.state
          /\ h.hops + Depth(state) <= pos

\* C25 witness: three symbols of a sequence are consumed and the third one
\* made the scan follow two failure links, from a state of depth 2 down to
\* the root.
C25_Witness ==
    /\ pc = "scan"
    /\ pos = 3
    /\ ScanHops(At(sequences, seq_i), 2).hops = 0
    /\ Depth(ScanHops(At(sequences, seq_i), 2).state) = 2
    /\ ScanHops(At(sequences, seq_i), 3).hops = 2
    /\ state = 0

\* No element occurs twice in the Vec of a Set.
DuplicateFree(elements) ==
    \A k, n \in 1..Len(elements) : elements[k] = elements[n] => k = n

\* C26: in every state of the run, the steps of build_goto and
\* build_failure included, no output set holds an index twice; and the
\* symbol a scan has just consumed added 1 to the count of each pattern in
\* the output set of the state it entered, and nothing to the other counts.
C26_OutputSetsDuplicateFree ==
    /\ \A s \in 1..Len(output_fn) : DuplicateFree(output_fn[s])
    /\ (pc = "scan" /\ pos >= 1)
       => LET before == ScanPrefix(At(sequences, seq_i), pos - 1).matches
          IN  \A i \in 1..Len(patterns) :
                 matches[i] - before[i]
                 = (IF Contains(At(output_fn, state), i - 1) THEN 1 ELSE 0)

\* C26 witness: a scan has just entered a state whose output set holds three
\* indices, two of equal patterns among them, and each of the three counts
\* went from 0 to 1.
C26_Witness ==
    /\ pc = "scan"
    /\ pos >= 1
    /\ Len(patterns) = 3
    /\ \E i, j \in 1..3 : i # j /\ patterns[i] = patterns[j]
    /\ Len(At(output_fn, state)) = 3
    /\ matches = <<1, 1, 1>>

\* C27: for every pattern of one symbol or more and every sequence,
\* init_boyer_moore and boyer_moore end without a panic, and the count
\* returned is the number of positions at which the pattern occurs.
C27_BoyerMooreCounts ==
    /\ bm.pc # "panic"
    /\ bm.pc = "done" => bm.matches = Occ(bm.pat, bm.seq)

====
